---- MODULE Spec2Model ----
(***************************************************************************)
(* Pixoo64: the controller's animation encoder (src/pixoo.py) and the      *)
(* simulator's reassembler and playback clock (src/simulator.py).          *)
(*                                                                         *)
(* A frame is kept as [len, id]: its length in bytes and a name for its    *)
(* content.  A base64 text is kept as [chars, pad, id]: its length in      *)
(* characters, the number of '=' at its end, and the content it encodes.   *)
(* The pixel buffer (a 64x64 PIL image) is kept as [fill, set]: the colour *)
(* of the last whole-image fill and the pixels that differ from it.        *)
(***************************************************************************)
EXTENDS Integers, Sequences, FiniteSets, TLC

\* ---------------------------------------------------------------- bounds
MaxShort == 2      \* longest freely chosen frame sequence of an animation
MaxCalls == 3      \* calls of flush_buffer / display_animation per session
MaxAcc == 3        \* longest frame list the receiver is driven to
MaxNum == 3        \* largest PicNum of the inbound messages
MaxSends == 2      \* calls of display_animation in an end-to-end run

TimeStep == 50     \* ms of wall-clock time that pass in one step
MaxElapsed == 100  \* ms after which the time since the last pass is not counted

\* ------------------------------------------------------ program constants
MaxPicNum == 60            \* pixoo.py:192, 194
buffer_width == 64         \* pixoo.py:75
DefaultDelay == 100        \* simulator.py:36, 171
DefaultPicNum == 1         \* simulator.py:170
DefaultPicOffset == 0      \* simulator.py:169
SimWidth == 64             \* simulator.py:184
Channels == 3              \* simulator.py:184

\* Optional[int]: None is the empty tuple, a given value v is <<v>>.
None == <<>>

Some(v) == <<v>>

The(o) == o[1]

Min(a, b) == IF a < b THEN a ELSE b

Max(a, b) == IF a > b THEN a ELSE b

Take(s, n) == SubSeq(s, 1, Min(n, Len(s)))

\* ------------------------------------------------------------ value sets
FrameIds == {1, 2}
Delays == {50, 100}
InitialPicIds == {0, 401}
SuppliedPicIds == {1, 402}

OptPicIds == {None} \cup {Some(v) : v \in SuppliedPicIds}

FrameOf(w, i) == [len |-> w * w * Channels, id |-> i]

\* base64.b64encode: 4 characters for every 3 bytes, padded with '='.
B64Encode(f) ==
    [chars |-> 4 * ((f.len + 2) \div 3), pad |-> (3 - (f.len % 3)) % 3, id |-> f.id]

\* base64.b64decode accepts a text whose length is a multiple of 4.
B64Valid(s) == s.chars % 4 = 0 /\ s.pad \in 0..2 /\ (s.chars = 0 => s.pad = 0)

B64Decode(s) == [len |-> (s.chars \div 4) * 3 - s.pad, id |-> s.id]

\* Frame sequences: every sequence of at most MaxShort frames, and the
\* sequences at and over the 60 frame ceiling (frame k has content k mod 2).
SeqsUpTo(S, n) == UNION {[1..k -> S] : k \in 0..n}

FramesOf(w) == {FrameOf(w, i) : i \in FrameIds}

LongLens == {MaxPicNum, MaxPicNum + 1}

LongFrames(w, n) == [k \in 1..n |-> FrameOf(w, (k % 2) + 1)]

Animation(fs, d, w) == [encoded_frames |-> fs, frame_delay |-> d, pic_width |-> w]

Animations ==
    {Animation(fs, d, buffer_width) :
        fs \in SeqsUpTo(FramesOf(buffer_width), MaxShort), d \in Delays}
    \cup {Animation(LongFrames(buffer_width, n), DefaultDelay, buffer_width) : n \in LongLens}
    \cup {Animation(<<f>>, DefaultDelay, 32) : f \in FramesOf(32)}

VARIABLES
    \* controller (pixoo.py)
    pic_id_counter,   \* DivoomPixoo64._pic_id_counter
    pc,               \* where display_animation stands: idle, loop, await
    image,            \* display_animation's image argument
    pic_id,           \* display_animation's pic_id after line 190
    pic_offset,       \* offset of the next frame the loop of line 194 takes
    in_flight,        \* payloads handed to session.post and not yet completed
    sent,             \* payloads posted by the current call, in order
    exchange,         \* how the call's last transport exchange ended
    outcome,          \* what the caller got from the last call
    used_ids,         \* the [id, auto] of the session's animations, in order
    calls,            \* calls made so far
    \* simulator (simulator.py)
    animation_manager,  \* Pixoo64Simulator.animation_manager, an AnimationManager
    elapsed,          \* current_time - last_frame_time of run_display, in ms
    display,          \* the frame last handed to update_display, None before
    run,              \* the in-order messages of one animation handled last,
                      \* until a frame is rendered after its last message
                      \* (kept by ReceivePost and PlaybackPost)
    last,             \* the request handled last: its kind, and whether it
                      \* reached finalize_animation (kept by ReceivePost)
    fresh,            \* frame 0 of the list finalize_animation published, until
                      \* a frame is rendered; None otherwise (kept by
                      \* PlaybackPost)
    published,        \* ever: a request has reached finalize_animation;
                      \* now: the request handled last did
    quiet,            \* no further request arrives
    pass,             \* what run_display's last due pass since the last request
                      \* did: none yet, skipped (no frame), rendered frame index
    \* controller's pixel buffer (pixoo.py)
    buffer,           \* DivoomPixoo64._buffer
    before,           \* _buffer as it was when the last drawing call was made
    call,             \* the last drawing call: its name, arguments and result
    trace             \* the pixels the last drawing call wrote, in order

txvars == <<pic_id_counter, pc, image, pic_id, pic_offset, in_flight, sent,
            exchange, outcome, used_ids, calls>>

rxvars == <<animation_manager, elapsed, display, run, last, fresh>>

ckvars == <<published, quiet, pass>>

bufvars == <<buffer, before, call, trace>>

vars == <<txvars, rxvars, ckvars, bufvars>>

NoImage == [encoded_frames |-> <<>>, frame_delay |-> DefaultDelay, pic_width |-> buffer_width]

InitTx ==
    /\ pic_id_counter \in InitialPicIds
    /\ pc = "idle"
    /\ image = NoImage
    /\ pic_id = 0
    /\ pic_offset = 0
    /\ in_flight = {}
    /\ sent = <<>>
    /\ exchange = "none"
    /\ outcome = "none"
    /\ used_ids = <<>>
    /\ calls = 0

\* _get_next_pic_id: the counter after the increment, which is also returned.
GetNextPicIdSkip(c) == c

GetNextPicId(c) == c + 1

\* pic_num of line 192.
PicNumUncapped(img) == Len(img.encoded_frames)

PicNum(img) == Min(Len(img.encoded_frames), MaxPicNum)

\* image.encoded_frames[:60] of line 194.
LoopFramesAll(img) == img.encoded_frames

LoopFrames(img) == Take(img.encoded_frames, MaxPicNum)

\* The payload of lines 196-204 for the frame at pic_offset.
Payload(img, pid, off) ==
    [Command |-> "Draw/SendHttpGif",
     PicNum |-> PicNum(img),
     PicWidth |-> img.pic_width,
     PicOffset |-> off,
     PicID |-> pid,
     PicSpeed |-> img.frame_delay,
     PicData |-> B64Encode(LoopFrames(img)[off + 1])]

\* The test of line 186.
EmptyAnimationNever(img) == FALSE

EmptyAnimation(img) == img.encoded_frames = <<>>

\* display_animation up to its loop (lines 186-193), entered with the counter c.
DisplayAnimationEnter(img, pid, c, auto) ==
    IF EmptyAnimation(img)
    THEN /\ outcome' = "ValueError"
         /\ pic_id_counter' = c
         /\ exchange' = "none"
         /\ UNCHANGED <<pc, image, pic_id, pic_offset, in_flight, sent, used_ids>>
    ELSE LET id == IF pid = None THEN GetNextPicId(c) ELSE The(pid)
             c2 == IF pid = None THEN GetNextPicId(c) ELSE c
         IN /\ pic_id' = id
            /\ pic_id_counter' = c2
            /\ image' = img
            /\ pic_offset' = 0
            /\ pc' = "loop"
            /\ sent' = <<>>
            /\ exchange' = "none"
            /\ outcome' = "pending"
            /\ used_ids' = Append(used_ids, [id |-> id, auto |-> auto \/ pid = None])
            /\ UNCHANGED in_flight

\* A call of display_animation(image, pic_id).
DisplayAnimation(img, pid) ==
    /\ pc = "idle"
    /\ calls < MaxCalls
    /\ calls' = calls + 1
    /\ DisplayAnimationEnter(img, pid, pic_id_counter, FALSE)

\* A call of flush_buffer(pic_id, frame_delay); frame_data is the buffer's bytes.
FlushBuffer(frame_data, pid, delay) ==
    /\ pc = "idle"
    /\ calls < MaxCalls
    /\ calls' = calls + 1
    /\ LET id == IF pid = None THEN Some(GetNextPicId(pic_id_counter)) ELSE pid
           c2 == IF pid = None THEN GetNextPicId(pic_id_counter) ELSE pic_id_counter
           animation == [encoded_frames |-> <<frame_data>>, frame_delay |-> delay,
                         pic_width |-> buffer_width]
       IN DisplayAnimationEnter(animation, id, c2, pid = None)

\* The loop of line 194 may take its next frame: the last send_command returned.
LoopReadyNoAwait == pc \in {"loop", "await"}

LoopReady == pc = "loop"

\* One iteration of the loop up to the await of line 205: the payload is handed
\* to session.post.
SendCommandPost ==
    /\ LoopReady
    /\ pic_offset < Len(LoopFrames(image))
    /\ LET payload == Payload(image, pic_id, pic_offset)
       IN /\ in_flight' = in_flight \cup {payload}
          /\ sent' = Append(sent, payload)
    /\ pic_offset' = pic_offset + 1
    /\ pc' = "await"
    /\ exchange' = "pending"
    /\ UNCHANGED <<pic_id_counter, image, pic_id, outcome, used_ids, calls>>

\* send_command returns (lines 143-153): a JSON reply of any status is returned,
\* a reply that is no JSON gives {'success': ...}; display_animation ignores both.
Replies == {"ok", "error_reply", "not_json"}

SendCommandReturn(reply) ==
    /\ pc = "await"
    /\ in_flight' = {}
    /\ exchange' = reply
    /\ IF pic_offset = Len(LoopFrames(image))
       THEN pc' = "idle" /\ outcome' = "returned"
       ELSE pc' = "loop" /\ UNCHANGED outcome
    /\ UNCHANGED <<pic_id_counter, image, pic_id, pic_offset, sent, used_ids, calls>>

\* What display_animation does when session.post raises: nothing catches it.
OnTransportErrorRetry ==
    /\ pc' = "loop"
    /\ pic_offset' = pic_offset - 1
    /\ UNCHANGED outcome

OnTransportError ==
    /\ pc' = "idle"
    /\ outcome' = "TransportError"
    /\ UNCHANGED pic_offset

\* session.post raises (line 143): the exception leaves send_command.
SendCommandRaise ==
    /\ pc = "await"
    /\ in_flight' = {}
    /\ exchange' = "failed"
    /\ OnTransportError
    /\ UNCHANGED <<pic_id_counter, image, pic_id, sent, used_ids, calls>>

CallDisplayAnimation ==
    /\ \E img \in Animations, pid \in OptPicIds : DisplayAnimation(img, pid)
    /\ UNCHANGED <<rxvars, ckvars, bufvars>>

CallFlushBuffer ==
    /\ \E i \in FrameIds, pid \in OptPicIds, d \in Delays :
           FlushBuffer(FrameOf(buffer_width, i), pid, d)
    /\ UNCHANGED <<rxvars, ckvars, bufvars>>

PostSendCommand == SendCommandPost /\ UNCHANGED <<rxvars, ckvars, bufvars>>

ReturnSendCommand == (\E r \in Replies : SendCommandReturn(r)) /\ UNCHANGED <<rxvars, ckvars, bufvars>>

RaiseSendCommand == SendCommandRaise /\ UNCHANGED <<rxvars, ckvars, bufvars>>

NextTx ==
    \/ CallDisplayAnimation
    \/ CallFlushBuffer
    \/ PostSendCommand
    \/ ReturnSendCommand
    \/ RaiseSendCommand

\* ---------------------------------------------------------- pixel buffer

\* (R, G, B) tuples.
Black == <<0, 0, 0>>

Red == <<255, 0, 0>>

Blue == <<0, 0, 255>>

White == <<255, 255, 255>>

Colours == {Black, Red, Blue, White}

Abs(a) == IF a < 0 THEN -a ELSE a

\* The coordinates of the image.
Grid == (0..(buffer_width - 1)) \X (0..(buffer_width - 1))

\* Image.new('RGB', (w, w), color) (line 81).
NewImage(color) == [fill |-> color, set |-> [p \in {} |-> color]]

\* _init_buffer (lines 79-81).
InitBuffer == NewImage(Black)

\* Image.getpixel(p)
GetPixel(b, p) == IF p \in DOMAIN b.set THEN b.set[p] ELSE b.fill

\* Image.putpixel(p, color) for every p of S, a set of pixels of the image.
PutPixels(b, S, color) ==
    LET D == IF color = b.fill THEN DOMAIN b.set \ S ELSE DOMAIN b.set \cup S
    IN [b EXCEPT !.set = [p \in D |-> IF p \in S THEN color ELSE b.set[p]]]

\* The bounds test of line 100 (and of lines 338, 357, 378, 383, 387).
InBoundsXOnly(p) == 0 <= p[1] /\ p[1] < buffer_width

InBounds(p) ==
    /\ 0 <= p[1] /\ p[1] < buffer_width
    /\ 0 <= p[2] /\ p[2] < buffer_width

\* set_pixel (lines 100-103): the buffer after, and whether ValueError is raised.
SetPixel(b, x, y, color) ==
    IF InBounds(<<x, y>>)
    THEN [buffer |-> PutPixels(b, {<<x, y>>}, color), raised |-> FALSE]
    ELSE [buffer |-> b, raised |-> TRUE]

\* clear_buffer (line 112): paste of the colour over the box (0, 0, w, w).
ClearBufferKeep(b, color) == [b EXCEPT !.fill = color]

ClearBuffer(b, color) == NewImage(color)

\* The calls of set_pixel that a loop makes with the pixels of pts, in order,
\* up to the first that raises: the pixels written, and whether one raised.
FirstOutside(pts) ==
    IF \E i \in 1..Len(pts) : ~InBounds(pts[i])
    THEN CHOOSE i \in 1..Len(pts) :
             /\ ~InBounds(pts[i])
             /\ \A j \in 1..(i - 1) : InBounds(pts[j])
    ELSE Len(pts) + 1

SetPixelsInOrder(b, pts, color) ==
    LET k == FirstOutside(pts)
        done == SubSeq(pts, 1, k - 1)
    IN [buffer |-> PutPixels(b, {done[i] : i \in 1..Len(done)}, color),
        raised |-> k <= Len(pts),
        points |-> done]

\* The set_pixel after the loop (lines 307, 317).
LastPixelMissing(x, y) == <<>>

LastPixel(x, y) == << <<x, y>> >>

\* The loop of lines 300-306 from (x, y) with error term err, and line 307:
\* the pixels set_pixel is called with, in order.
RECURSIVE LineAlongX(_, _, _, _, _, _, _, _)
LineAlongX(x, y, err, x1, dx, dy, sx, sy) ==
    IF x = x1 THEN LastPixel(x, y)
    ELSE LET e == err - dy
         IN << <<x, y>> >> \o
            (IF e < 0
             THEN LineAlongX(x + sx, y + sy, e + dx, x1, dx, dy, sx, sy)
             ELSE LineAlongX(x + sx, y, e, x1, dx, dy, sx, sy))

\* The loop of lines 310-316 and line 317.
RECURSIVE LineAlongY(_, _, _, _, _, _, _, _)
LineAlongY(x, y, err, y1, dx, dy, sx, sy) ==
    IF y = y1 THEN LastPixel(x, y)
    ELSE LET e == err - dx
         IN << <<x, y>> >> \o
            (IF e < 0
             THEN LineAlongY(x + sx, y + sy, e + dy, y1, dx, dy, sx, sy)
             ELSE LineAlongY(x, y + sy, e, y1, dx, dy, sx, sy))

\* Lines 293-317: the pixels draw_line calls set_pixel with, in order.
LinePointsFromLeft(x0, y0, x1, y1) ==
    LET ax == IF x0 <= x1 THEN x0 ELSE x1
        ay == IF x0 <= x1 THEN y0 ELSE y1
        bx == IF x0 <= x1 THEN x1 ELSE x0
        by == IF x0 <= x1 THEN y1 ELSE y0
        dx == Abs(bx - ax)
        dy == Abs(by - ay)
        sx == IF ax < bx THEN 1 ELSE -1
        sy == IF ay < by THEN 1 ELSE -1
    IN IF dx > dy
       THEN LineAlongX(ax, ay, dx \div 2, bx, dx, dy, sx, sy)
       ELSE LineAlongY(ax, ay, dy \div 2, by, dx, dy, sx, sy)

LinePoints(x0, y0, x1, y1) ==
    LET dx == Abs(x1 - x0)
        dy == Abs(y1 - y0)
        sx == IF x0 < x1 THEN 1 ELSE -1
        sy == IF y0 < y1 THEN 1 ELSE -1
    IN IF dx > dy
       THEN LineAlongX(x0, y0, dx \div 2, x1, dx, dy, sx, sy)
       ELSE LineAlongY(x0, y0, dy \div 2, y1, dx, dy, sx, sy)

\* draw_line (lines 280-317).
DrawLine(b, x0, y0, x1, y1, color) ==
    SetPixelsInOrder(b, LinePoints(x0, y0, x1, y1), color)

\* The pixels of S that pass the bounds test before set_pixel is called.
Clip(S) == {p \in S : InBounds(p)}

\* The fill pass of draw_circle (lines 334-339).
DiskPoints(cx, cy, radius) ==
    {<<cx + off[1], cy + off[2]>> :
        off \in {o \in ((-radius)..radius) \X ((-radius)..radius) :
                    o[1] * o[1] + o[2] * o[2] <= radius * radius}}

\* The eight points of lines 346-349.
OctantsFour(cx, cy, x, y) ==
    {<<cx + x, cy + y>>, <<cx - x, cy + y>>, <<cx + x, cy - y>>, <<cx - x, cy - y>>}

Octants(cx, cy, x, y) ==
    {<<cx + x, cy + y>>, <<cx - x, cy + y>>, <<cx + x, cy - y>>, <<cx - x, cy - y>>,
     <<cx + y, cy + x>>, <<cx - y, cy + x>>, <<cx + y, cy - x>>, <<cx - y, cy - x>>}

\* The loop of lines 345-355 from (x, y) with decision value d: outline_points.
RECURSIVE OutlinePoints(_, _, _, _, _)
OutlinePoints(cx, cy, x, y, d) ==
    IF x < y THEN {}
    ELSE Octants(cx, cy, x, y) \cup
         (IF d < 0
          THEN OutlinePoints(cx, cy, x, y + 1, d + 2 * (y + 1) + 1)
          ELSE OutlinePoints(cx, cy, x - 1, y + 1, d + 2 * ((y + 1) - (x - 1)) + 1))

\* draw_circle (lines 319-358): the fill pass, then the outline pass.
DrawCircle(b, cx, cy, radius, outline_color, fill_color) ==
    LET disk == Clip(DiskPoints(cx, cy, radius))
        outline_points == OutlinePoints(cx, cy, radius, 0, 1 - radius)
        filled == IF fill_color # None THEN PutPixels(b, disk, The(fill_color)) ELSE b
    IN [buffer |-> PutPixels(filled, Clip(outline_points), outline_color),
        raised |-> FALSE,
        outline |-> outline_points,
        fill |-> IF fill_color # None THEN disk ELSE {}]

\* The fill pass of draw_rectangle (lines 376-379).
Interior(x0, y0, x1, y1) ==
    ((Min(x0, x1) + 1)..(Max(x0, x1) - 1)) \X ((Min(y0, y1) + 1)..(Max(y0, y1) - 1))

\* The outline passes of draw_rectangle (lines 381-388).
BorderRowsOnly(x0, y0, x1, y1) ==
    (Min(x0, x1)..Max(x0, x1)) \X {Min(y0, y1), Max(y0, y1)}

Border(x0, y0, x1, y1) ==
    ((Min(x0, x1)..Max(x0, x1)) \X {Min(y0, y1), Max(y0, y1)})
    \cup ({Min(x0, x1), Max(x0, x1)} \X (Min(y0, y1)..Max(y0, y1)))

\* draw_rectangle (lines 360-388): the fill pass, then the outline passes.
DrawRectangle(b, x0, y0, x1, y1, outline_color, fill_color) ==
    LET inside == Clip(Interior(x0, y0, x1, y1))
        filled == IF fill_color # None THEN PutPixels(b, inside, The(fill_color)) ELSE b
    IN [buffer |-> PutPixels(filled, Clip(Border(x0, y0, x1, y1)), outline_color),
        raised |-> FALSE,
        outline |-> Border(x0, y0, x1, y1),
        fill |-> IF fill_color # None THEN inside ELSE {}]

\* The buffers the drawing calls are made on: the buffer after construction,
\* after clear_buffer, and after draw_rectangle with a fill.
Pictures ==
    {InitBuffer,
     ClearBuffer(InitBuffer, White),
     DrawRectangle(InitBuffer, 8, 8, 24, 24, Blue, Some(White)).buffer}

NoCall == [op |-> "none", args |-> <<>>, raised |-> FALSE]

NoTrace == [points |-> <<>>, outline |-> {}, fill |-> {}]

InitBuf ==
    /\ buffer = InitBuffer
    /\ before = InitBuffer
    /\ call = NoCall
    /\ trace = NoTrace

\* ------------------------------------------------------------- simulator

\* AnimationManager.__init__ (lines 33-37).  current_animation and
\* next_animation are references to lists: shared says that both name the same
\* list object, so that an append through one shows through the other.
NewAnimationManagerShared ==
    [current_animation |-> <<>>,
     next_animation |-> <<>>,
     shared |-> TRUE,
     current_frame |-> 0,
     frame_delay |-> DefaultDelay,
     receiving_frames |-> FALSE]

NewAnimationManager ==
    [current_animation |-> <<>>,
     next_animation |-> <<>>,
     shared |-> FALSE,
     current_frame |-> 0,
     frame_delay |-> DefaultDelay,
     receiving_frames |-> FALSE]

NoRun == [pic |-> 0, num |-> 0, frames |-> <<>>]

InitRx ==
    /\ animation_manager = NewAnimationManager
    /\ elapsed = 0
    /\ display = None
    /\ run = NoRun
    /\ last = [kind |-> "none", fin |-> FALSE]
    /\ fresh = None

\* AnimationFrame(data), the dataclass of lines 23-26.
AnimationFrame(data) == [data |-> data]

\* start_new_animation (lines 39-42): next_animation becomes a new empty list.
StartNewAnimationKeep(am) == [am EXCEPT !.receiving_frames = TRUE]

StartNewAnimation(am) ==
    [am EXCEPT !.receiving_frames = TRUE, !.next_animation = <<>>, !.shared = FALSE]

\* add_frame (lines 44-51): an append to the list next_animation names.
AddFrame(am, frame_data) ==
    [am EXCEPT !.next_animation = Append(@, AnimationFrame(frame_data)),
               !.current_animation =
                   IF am.shared THEN Append(@, AnimationFrame(frame_data)) ELSE @]

\* finalize_animation (lines 53-57): current_animation names next_animation's list.
FinalizeAnimationKeepIndex(am) ==
    [am EXCEPT !.current_animation = am.next_animation,
               !.shared = TRUE,
               !.receiving_frames = FALSE]

FinalizeAnimation(am) ==
    [am EXCEPT !.current_frame = 0,
               !.current_animation = am.next_animation,
               !.shared = TRUE,
               !.receiving_frames = FALSE]

\* get_current_frame (lines 59-73): <<the frame or None, the manager after>>.
GetCurrentFrameFirst(am) ==
    IF am.current_animation = <<>> \/ am.receiving_frames
    THEN <<None, am>>
    ELSE <<Some(am.current_animation[1].data), am>>

GetCurrentFrame(am) ==
    IF am.current_animation = <<>> \/ am.receiving_frames
    THEN <<None, am>>
    ELSE IF am.current_frame < Len(am.current_animation)
         THEN <<Some(am.current_animation[am.current_frame + 1].data), am>>
         ELSE <<None, [am EXCEPT !.current_frame = 0]>>

\* advance_frame (lines 75-78).
AdvanceFrameNoWrap(am) ==
    IF am.current_animation # <<>>
    THEN [am EXCEPT !.current_frame = am.current_frame + 1]
    ELSE am

AdvanceFrame(am) ==
    IF am.current_animation # <<>>
    THEN [am EXCEPT !.current_frame = (am.current_frame + 1) % Len(am.current_animation)]
    ELSE am

\* ------------------------------------------------------ inbound requests
PicIds == {401, 402}

\* A PicData text: the base64 of a 64x64 frame, of a 32x32 frame, and a text
\* that is no base64 (its length is no multiple of 4).
GoodData == {B64Encode(FrameOf(SimWidth, i)) : i \in FrameIds}

ShortData == {B64Encode(FrameOf(32, 1))}

BrokenData == {[chars |-> 5, pad |-> 0, id |-> 1]}

Request(cmd, id, num, off, speed, data) ==
    [Command |-> cmd, PicID |-> id, PicNum |-> num, PicOffset |-> off,
     PicSpeed |-> speed, PicData |-> data]

\* The requests whose payload decodes to a frame, the requests whose payload is
\* malformed or missing, and requests that leave other fields out.
Offsets == 0..(MaxNum - 1)

GifRequest(id, num, off, speed, data) ==
    Request("Draw/SendHttpGif", Some(id), Some(num), Some(off), Some(speed), data)

BadData == {None} \cup {Some(d) : d \in ShortData \cup BrokenData}

GifRequests ==
    {GifRequest(401, num, off, speed, Some(data)) :
        num \in 1..MaxNum, off \in Offsets, speed \in Delays, data \in GoodData}
    \cup {GifRequest(402, num, off, DefaultDelay, Some(data)) :
        num \in 1..MaxNum, off \in Offsets, data \in GoodData}
    \cup {GifRequest(401, num, num - 1, speed, data) :
        num \in {1, 2}, speed \in Delays, data \in BadData}
    \cup {GifRequest(401, 2, 0, speed, Some(data)) : speed \in Delays, data \in ShortData}
    \cup {Request("Draw/SendHttpGif", Some(401), None, None, None, Some(data)) :
        data \in GoodData \cup ShortData}

\* The messages of the animations of one identifier, with and without payload.
PlaybackRequests ==
    UNION {{GifRequest(401, num, off, speed, Some(data)) :
                off \in 0..(num - 1), speed \in Delays, data \in GoodData} :
            num \in 1..MaxNum}
    \cup {GifRequest(401, 2, 1, speed, data) :
        speed \in Delays, data \in {None} \cup {Some(d) : d \in ShortData}}

OtherRequests ==
    {Request("Channel/SetBrightness", None, None, None, None, None)}

Requests == GifRequests \cup OtherRequests

\* data.get(key, default)
Get(field, default) == IF field = None THEN default ELSE The(field)

\* Lines 177-184: the decoded payload as a 64x64x3 array, or "raise" when
\* b64decode or reshape raises.
FrameBytes == SimWidth * SimWidth * Channels

FrameArray(pic_data) ==
    IF ~B64Valid(pic_data) THEN "raise"
    ELSE IF B64Decode(pic_data).len # FrameBytes THEN "raise"
    ELSE "ok"

\* Line 171 stores PicSpeed before the payload is looked at.
SetFrameDelay(am, data) == [am EXCEPT !.frame_delay = Get(data.PicSpeed, DefaultDelay)]

\* Lines 186-197: the manager after a frame that decoded well.
Accumulate(am, data, frame_data) ==
    LET off == Get(data.PicOffset, DefaultPicOffset)
        num == Get(data.PicNum, DefaultPicNum)
        started == IF off = 0 THEN StartNewAnimation(am) ELSE am
        added == AddFrame(started, frame_data)
    IN IF off = num - 1 THEN FinalizeAnimation(added) ELSE added

\* _handle_send_gif (lines 161-197): the manager after the request.
HandleSendGif(am, data) ==
    LET am1 == SetFrameDelay(am, data)
    IN IF data.PicData = None THEN am1
       ELSE IF FrameArray(The(data.PicData)) = "raise" THEN am1
       ELSE Accumulate(am1, data, B64Decode(The(data.PicData)))

\* The status of handle_post's response (lines 155, 159).
Status(data) ==
    IF data.Command = "Draw/SendHttpGif" /\ data.PicData # None
       /\ FrameArray(The(data.PicData)) = "raise"
    THEN 500 ELSE 200

\* The request reaches lines 186-197.
WellFormed(data) ==
    /\ data.Command = "Draw/SendHttpGif"
    /\ data.PicData # None
    /\ FrameArray(The(data.PicData)) = "ok"

Finalizes(data) ==
    Get(data.PicOffset, DefaultPicOffset) = Get(data.PicNum, DefaultPicNum) - 1

\* All messages of the run have been handled.
RunDone(r) == r # NoRun /\ Len(r.frames) = r.num

\* The request is the next message of the run under way, or a first message.
Continues(r, data) ==
    LET off == Get(data.PicOffset, DefaultPicOffset)
        num == Get(data.PicNum, DefaultPicNum)
    IN /\ WellFormed(data)
       /\ data.PicID # None
       /\ off < num
       /\ \/ off = 0
          \/ /\ r # NoRun
             /\ The(data.PicID) = r.pic
             /\ num = r.num
             /\ off = Len(r.frames)

\* The run after this request: none when the request breaks it.
NextRun(r, data) ==
    IF Continues(r, data)
    THEN [pic |-> The(data.PicID),
          num |-> Get(data.PicNum, DefaultPicNum),
          frames |-> IF Get(data.PicOffset, DefaultPicOffset) = 0
                     THEN <<B64Decode(The(data.PicData))>>
                     ELSE Append(r.frames, B64Decode(The(data.PicData)))]
    ELSE NoRun

\* What the request is for a receiver whose manager is am and that has handled
\* the run r: of another command, without payload, rejected (the payload raises),
\* the first message of an animation, the next message of the run under way, a
\* message of another identifier or total than the run under way, or any other.
Kind(am, r, data) ==
    IF data.Command # "Draw/SendHttpGif" THEN "other"
    ELSE IF data.PicData = None THEN "nodata"
    ELSE IF ~WellFormed(data) THEN "rejected"
    ELSE IF Get(data.PicOffset, DefaultPicOffset) = 0 THEN "first"
    ELSE IF am.receiving_frames /\ r # NoRun /\ ~RunDone(r)
         THEN IF data.PicID = None \/ The(data.PicID) # r.pic
                 \/ Get(data.PicNum, DefaultPicNum) # r.num
              THEN "foreign"
              ELSE IF Continues(r, data) THEN "next" ELSE "stray"
    ELSE "stray"

\* handle_post (lines 147-159) for one request; nothing awaits between the
\* request's arrival and the response, so the handling is one step.
HandlePost(data) ==
    /\ \/ Len(animation_manager.next_animation) < MaxAcc
       \/ ~WellFormed(data)
       \/ Get(data.PicOffset, DefaultPicOffset) = 0
    /\ animation_manager' =
           IF data.Command = "Draw/SendHttpGif"
           THEN HandleSendGif(animation_manager, data)
           ELSE animation_manager

\* Frame 0 of the list a finalizing request published.
NextFresh(data) ==
    IF WellFormed(data) /\ Finalizes(data)
    THEN Some(animation_manager'.current_animation[1].data)
    ELSE fresh

\* One pass of run_display's loop at which the frame delay has elapsed
\* (lines 209-215).
RunDisplayDue ==
    /\ elapsed >= animation_manager.frame_delay
    /\ LET got == GetCurrentFrame(animation_manager)
       IN IF got[1] # None
          THEN /\ display' = got[1]
               /\ animation_manager' = AdvanceFrame(got[2])
               /\ fresh' = None
          ELSE /\ animation_manager' = got[2]
               /\ UNCHANGED <<display, fresh>>
    /\ elapsed' = 0
    /\ run' = IF RunDone(run) THEN NoRun ELSE run
    /\ UNCHANGED last

\* Wall-clock time passes between two passes of the loop (line 217).
TimePasses ==
    /\ elapsed < MaxElapsed
    /\ elapsed' = elapsed + TimeStep
    /\ UNCHANGED <<animation_manager, display, run, last, fresh>>

\* The reassembler under requests of every kind.
ReceivePost ==
    /\ \E data \in Requests :
           /\ HandlePost(data)
           /\ run' = NextRun(run, data)
           /\ last' = [kind |-> Kind(animation_manager, run, data),
                        fin |-> WellFormed(data) /\ Finalizes(data)]
    /\ UNCHANGED <<elapsed, display, fresh>>
    /\ UNCHANGED <<txvars, ckvars, bufvars>>

NextReassembler == ReceivePost

\* The reassembler under the messages of one identifier, and the playback
\* clock, which share the event loop.
PlaybackPost ==
    /\ \E data \in PlaybackRequests :
           /\ HandlePost(data)
           /\ run' = NextRun(run, data)
           /\ fresh' = NextFresh(data)
    /\ UNCHANGED <<elapsed, display, last>>
    /\ UNCHANGED <<txvars, ckvars, bufvars>>

Tick == RunDisplayDue /\ UNCHANGED <<txvars, ckvars, bufvars>>

Tock == TimePasses /\ UNCHANGED <<txvars, ckvars, bufvars>>

NextPlayback ==
    \/ PlaybackPost
    \/ Tick
    \/ Tock

\* ------------------------------------- the playback clock left to itself
NoPass == [kind |-> "none", index |-> 0]

InitCk ==
    /\ published = [ever |-> FALSE, now |-> FALSE]
    /\ quiet = FALSE
    /\ pass = NoPass

\* A request arrives while the sender is still sending.
ClockPost ==
    /\ ~quiet
    /\ \E data \in PlaybackRequests :
           /\ HandlePost(data)
           /\ published' = [ever |-> published.ever \/ (WellFormed(data) /\ Finalizes(data)),
                             now |-> WellFormed(data) /\ Finalizes(data)]
    /\ pass' = NoPass
    /\ UNCHANGED <<elapsed, display, quiet, run, last, fresh>>
    /\ UNCHANGED <<txvars, bufvars>>

\* A due pass of run_display's loop, with what it did.
ClockTick ==
    /\ RunDisplayDue
    /\ pass' = IF GetCurrentFrame(animation_manager)[1] # None
               THEN [kind |-> "rendered", index |-> animation_manager.current_frame]
               ELSE [kind |-> "skipped", index |-> 0]
    /\ UNCHANGED <<published, quiet>>
    /\ UNCHANGED <<txvars, bufvars>>

\* The sender has sent its last request.
Quiesce ==
    /\ ~quiet
    /\ quiet' = TRUE
    /\ UNCHANGED <<published, pass>>
    /\ UNCHANGED <<txvars, rxvars, bufvars>>

NextClock ==
    \/ ClockPost
    \/ ClockTick
    \/ Tock
    \/ Quiesce

\* ------------------------------------------- drawing calls on the buffer
SetXs == (-1)..buffer_width

SetYs == {-1, 0, 31, buffer_width - 1, buffer_width}

LineCoords == {0, 5, 8, 31, 63}

OutsideCoords == {-2, 64}

MaxRadius == 4

Radii == (1..MaxRadius) \cup {10, 20}

Centres == {<<32, 32>>, <<0, 0>>, <<61, 3>>, <<-3, 66>>}

RectXs == {-2, 0, 10, 54, 66}

RectYs == {10, 11, 54}

FillColours == {None, Some(Blue), Some(Red)}

Drawn(op, args, r, points, outline, fill) ==
    /\ call = NoCall
    /\ before' = buffer
    /\ buffer' = r.buffer
    /\ call' = [op |-> op, args |-> args, raised |-> r.raised]
    /\ trace' = [points |-> points, outline |-> outline, fill |-> fill]
    /\ UNCHANGED <<txvars, rxvars, ckvars>>

CallSetPixel ==
    \E x \in SetXs, y \in SetYs, color \in {Red, Black} :
        LET r == SetPixel(buffer, x, y, color)
        IN Drawn("set_pixel", [x |-> x, y |-> y, color |-> color], r,
                 IF r.raised THEN <<>> ELSE << <<x, y>> >>, {}, {})

CallClearBuffer ==
    \E color \in Colours :
        Drawn("clear_buffer", [color |-> color],
              [buffer |-> ClearBuffer(buffer, color), raised |-> FALSE], <<>>, {}, {})

CallDrawLine ==
    \E x0 \in LineCoords, y0 \in LineCoords,
       x1 \in LineCoords \cup OutsideCoords, y1 \in LineCoords :
        LET r == DrawLine(buffer, x0, y0, x1, y1, Red)
        IN Drawn("draw_line",
                 [x0 |-> x0, y0 |-> y0, x1 |-> x1, y1 |-> y1, color |-> Red],
                 r, r.points, {}, {})

CallDrawCircle ==
    \E c \in Centres, radius \in Radii, fill_color \in FillColours :
        LET r == DrawCircle(buffer, c[1], c[2], radius, Red, fill_color)
        IN Drawn("draw_circle",
                 [cx |-> c[1], cy |-> c[2], radius |-> radius,
                  outline_color |-> Red, fill_color |-> fill_color],
                 r, <<>>, r.outline, r.fill)

CallDrawRectangle ==
    \E x0 \in RectXs, x1 \in RectXs, y0 \in RectYs, y1 \in RectYs,
       fill_color \in {None, Some(Blue)} :
        LET r == DrawRectangle(buffer, x0, y0, x1, y1, Red, fill_color)
        IN Drawn("draw_rectangle",
                 [x0 |-> x0, y0 |-> y0, x1 |-> x1, y1 |-> y1,
                  outline_color |-> Red, fill_color |-> fill_color],
                 r, <<>>, r.outline, r.fill)

NextCanvas ==
    \/ CallSetPixel
    \/ CallClearBuffer
    \/ CallDrawLine
    \/ CallDrawCircle
    \/ CallDrawRectangle

\* ------------------------------------------------- drawing and flushing
\* Image.tobytes() of an RGB image (line 124): the bytes of the pixels row by
\* row, three bytes R, G, B for each pixel.
ToBytesColumnMajor(b) ==
    [i \in 1..(buffer_width * buffer_width * Channels) |->
        GetPixel(b, <<((i - 1) \div Channels) \div buffer_width,
                      ((i - 1) \div Channels) % buffer_width>>)[((i - 1) % Channels) + 1]]

ToBytes(b) ==
    [i \in 1..(buffer_width * buffer_width * Channels) |->
        GetPixel(b, <<((i - 1) \div Channels) % buffer_width,
                      ((i - 1) \div Channels) \div buffer_width>>)[((i - 1) % Channels) + 1]]

\* The frame that holds the bytes.
FrameData(bytes) == [len |-> Len(bytes), id |-> bytes]

\* A call of flush_buffer on the buffer as it is (lines 122-126).
CallFlushBufferNow ==
    /\ \E pid \in {None, Some(402)} :
           /\ FlushBuffer(FrameData(ToBytes(buffer)), pid, DefaultDelay)
           /\ call' = [op |-> "flush_buffer", args |-> [pic_id |-> pid], raised |-> FALSE]
    /\ before' = buffer
    /\ UNCHANGED <<buffer, trace>>
    /\ UNCHANGED <<rxvars, ckvars>>

\* Drawing between and during the flushes, as test_pixel_buffer does.
DrawMore ==
    /\ \/ buffer' = SetPixel(buffer, 5, 7, Red).buffer
       \/ buffer' = ClearBuffer(buffer, Black)
    /\ UNCHANGED <<before, call, trace>>
    /\ UNCHANGED <<txvars, rxvars, ckvars>>

\* ---------------------------------------- controller and simulator joined
\* The animations sent end to end: one frame, two frames, 61 frames, and two
\* frames of 32x32 pixels.
EndToEndAnimations ==
    {Animation(<<FrameOf(buffer_width, 1)>>, 50, buffer_width),
     Animation(<<FrameOf(buffer_width, 1), FrameOf(buffer_width, 2)>>, DefaultDelay,
               buffer_width),
     Animation(LongFrames(buffer_width, MaxPicNum + 1), DefaultDelay, buffer_width),
     Animation(<<FrameOf(32, 1), FrameOf(32, 2)>>, DefaultDelay, 32)}

\* The payload as request.json() gives it to handle_post (pixoo.py line 143,
\* simulator.py line 148): the simulator reads the keys by data.get.
Received(payload) ==
    Request(payload.Command, Some(payload.PicID), Some(payload.PicNum),
            Some(payload.PicOffset), Some(payload.PicSpeed), Some(payload.PicData))

\* handle_post (lines 147-159): the manager after the request.
Handled(am, data) ==
    IF data.Command = "Draw/SendHttpGif" THEN HandleSendGif(am, data) ELSE am

\* A call of display_animation(image) on the controller.
SendAnimation ==
    /\ calls < MaxSends
    /\ \E img \in EndToEndAnimations : DisplayAnimation(img, None)
    /\ UNCHANGED <<rxvars, ckvars, bufvars>>

\* The message in flight reaches the simulator, which handles it.
Deliver ==
    /\ pc = "await"
    /\ exchange = "pending"
    /\ \E payload \in in_flight :
           LET data == Received(payload)
           IN /\ animation_manager' = Handled(animation_manager, data)
              /\ published' = [ever |-> published.ever \/ (WellFormed(data) /\ Finalizes(data)),
                                now |-> WellFormed(data) /\ Finalizes(data)]
    /\ pass' = NoPass
    /\ exchange' = "handled"
    /\ UNCHANGED <<pic_id_counter, pc, image, pic_id, pic_offset, in_flight, sent,
                   outcome, used_ids, calls>>
    /\ UNCHANGED <<elapsed, display, run, last, fresh, quiet>>
    /\ UNCHANGED bufvars

\* The simulator's response (lines 155, 159) reaches send_command, which
\* returns what it read from it (pixoo.py lines 143-153): for status 500 a
\* reply that tells the error.
Respond ==
    /\ exchange = "handled"
    /\ \E payload \in in_flight :
           SendCommandReturn(IF Status(Received(payload)) = 200
                             THEN "ok" ELSE "error_reply")
    /\ UNCHANGED <<rxvars, ckvars, bufvars>>

NextEndToEnd ==
    \/ SendAnimation
    \/ PostSendCommand
    \/ Deliver
    \/ Respond
    \/ RaiseSendCommand
    \/ ClockTick
    \/ Tock

\* Drawing and flushing against the simulator.
NextFlush ==
    \/ CallFlushBufferNow
    \/ DrawMore
    \/ PostSendCommand
    \/ Deliver
    \/ Respond
    \/ RaiseSendCommand

\* ------------------------------------------------------- specifications
InitEncoder == InitTx /\ InitRx /\ InitCk /\ InitBuf

InitReceiver == InitTx /\ pic_id_counter = 0 /\ InitRx /\ InitCk /\ InitBuf

\* A drawing call on each of the buffers of Pictures.
InitCanvas ==
    /\ InitTx /\ pic_id_counter = 0 /\ InitRx /\ InitCk
    /\ buffer \in Pictures
    /\ before = buffer
    /\ call = NoCall
    /\ trace = NoTrace

SpecEncoder == InitEncoder /\ [][NextTx]_vars

SpecReassembler == InitReceiver /\ [][NextReassembler]_vars

SpecPlayback == InitReceiver /\ [][NextPlayback]_vars

SpecClock == InitReceiver /\ [][NextClock]_vars

\* run_display's loop never stops: time passes, and a due pass is made.
SpecClockFair == SpecClock /\ WF_vars(ClockTick) /\ WF_vars(Tock)

SpecCanvas == InitCanvas /\ [][NextCanvas]_vars

SpecEndToEnd == InitReceiver /\ [][NextEndToEnd]_vars

SpecFlush == InitReceiver /\ [][NextFlush]_vars

\* ------------------------------------------------------------ the encoder

\* C1: a call of display_animation on n >= 1 frames posts the messages of the
\* first N = min(n, 60) frames, in frame order, with PicOffset 0, 1, ..., N-1,
\* all with the same PicID, PicNum = N, PicWidth and PicSpeed; when it has
\* returned it has posted exactly N, and 61 frames give 60 messages with
\* PicNum = 60.
C1_EncoderEmitsCappedOrderedMessages ==
    LET n == Len(image.encoded_frames)
        N == IF n < 60 THEN n ELSE 60
    IN /\ \A k \in 1..Len(sent) :
            /\ sent[k].Command = "Draw/SendHttpGif"
            /\ sent[k].PicOffset = k - 1
            /\ sent[k].PicNum = N
            /\ sent[k].PicID = sent[1].PicID
            /\ sent[k].PicID = used_ids[Len(used_ids)].id
            /\ sent[k].PicWidth = image.pic_width
            /\ sent[k].PicSpeed = image.frame_delay
            /\ sent[k].PicData = B64Encode(image.encoded_frames[k])
       /\ Len(sent) <= N
       /\ outcome = "returned" => Len(sent) = N
       /\ (outcome = "returned" /\ n = 61) => (Len(sent) = 60 /\ sent[60].PicNum = 60)

\* A call on 61 frames has returned after 60 messages.
C1_Witness ==
    outcome = "returned" /\ Len(image.encoded_frames) = 61 /\ Len(sent) = 60

\* C2: within one call at most one message is in flight: a message is handed
\* to the transport only when the exchange of the one before it has completed.
C2_OneMessageInFlight ==
    /\ Cardinality(in_flight) <= 1
    /\ in_flight # {} => (pc = "await" /\ in_flight = {sent[Len(sent)]})
    /\ pc = "loop" => in_flight = {}

\* The third message of a call is in flight.
C2_Witness ==
    pc = "await" /\ Len(sent) = 3 /\ Cardinality(in_flight) = 1

\* C3: when the transport fails on the message with offset k the caller gets the
\* failure, the call is over with nothing in flight, and the call's messages are
\* those with offsets 0..k, each posted once: k is not posted again, nothing
\* after k is posted, and 0..k-1 stay posted.
C3_TransportFailureEndsCall ==
    exchange = "failed" =>
        /\ outcome = "TransportError"
        /\ pc = "idle"
        /\ in_flight = {}
        /\ Len(sent) = pic_offset
        /\ \A k \in 1..Len(sent) : sent[k].PicOffset = k - 1

\* The transport failed on the second message of an animation of three or more.
C3_Witness ==
    /\ exchange = "failed"
    /\ outcome = "TransportError"
    /\ Len(sent) = 2
    /\ Len(image.encoded_frames) >= 3

\* C4 as stated: the PicIDs of the session's successive animations are strictly
\* increasing, so none is used twice, whether or not the caller gives pic_id.
C4_PicIdsStrictlyIncreasing ==
    \A i, j \in 1..Len(used_ids) : i < j => used_ids[i].id < used_ids[j].id

\* C4 amended: the PicIDs the controller assigns itself (no pic_id given) are
\* strictly increasing among themselves and none of them is assigned twice,
\* whatever pic_id the caller gives in the calls between them.
C4_AutoPicIdsStrictlyIncreasing ==
    \A i, j \in 1..Len(used_ids) :
        (i < j /\ used_ids[i].auto /\ used_ids[j].auto) => used_ids[i].id < used_ids[j].id

\* Two self-assigned PicIDs with a caller-given one between them.
C4_Witness ==
    /\ Len(used_ids) = 3
    /\ used_ids[1].auto
    /\ ~used_ids[2].auto
    /\ used_ids[3].auto

\* --------------------------------------------------------- the simulator

Frames(fs) == [k \in 1..Len(fs) |-> AnimationFrame(fs[k])]

\* C5: from any state of the receiver, once the messages of one animation with
\* offsets 0..N-1 and total N have been handled in that order, the published
\* list is exactly their N frames in that order, the current-frame index is 0
\* and the receiver is not receiving.
C5_InOrderRunIsPublished ==
    RunDone(run) =>
        /\ animation_manager.current_animation = Frames(run.frames)
        /\ Len(animation_manager.current_animation) = run.num
        /\ animation_manager.current_frame = 0
        /\ ~animation_manager.receiving_frames

\* Three frames, not all alike, published over an animation that was playing.
C5_Witness ==
    /\ RunDone(run)
    /\ run.num = 3
    /\ run.frames[1] # run.frames[2]
    /\ animation_manager.current_animation = Frames(run.frames)
    /\ display # None

\* C6: while the receiver is receiving the messages of one animation, a message
\* of another PicID or another PicNum whose offset is not 0 is not accepted: it
\* adds no frame and finalizes nothing.
C6_ForeignMessageNotAccepted ==
    [][last'.kind = "foreign" =>
          /\ animation_manager'.next_animation = animation_manager.next_animation
          /\ animation_manager'.current_animation = animation_manager.current_animation
          /\ animation_manager'.receiving_frames = animation_manager.receiving_frames]_vars

\* C7: a message whose payload is not 64*64*3 bytes is rejected and leaves the
\* pending list, the receiving flag, the published list, the current-frame
\* index and the frame delay as they were.
C7_RejectedMessageChangesNothing ==
    [][last'.kind = "rejected" => animation_manager' = animation_manager]_vars

\* C8: a message that does not finalize leaves the published frame list as it
\* was, also when it arrives after a publication with the receiver idle.
C8_PublishedChangesOnlyAtFinalization ==
    [][~last'.fin =>
          animation_manager'.current_animation = animation_manager.current_animation]_vars

\* A pass of run_display's loop at which the frame delay had elapsed.
DueTick == elapsed' < elapsed

\* C9: whenever there is a published list the current-frame index is inside
\* it, after a publication the index is 0 until a frame is rendered, and the
\* first frame rendered after a publication is frame 0 of the published list.
C9_NoTornPublication ==
    /\ [](/\ animation_manager.current_animation # <<>> =>
                animation_manager.current_frame < Len(animation_manager.current_animation)
          /\ fresh # None =>
                /\ animation_manager.current_frame = 0
                /\ animation_manager.current_animation # <<>>
                /\ animation_manager.current_animation[1].data = The(fresh))
    /\ [][(fresh # None /\ fresh' = None) => display' = fresh]_vars

\* A one-frame animation published over a playing one whose frame differs,
\* with the next pass of the loop due.
C9_Witness ==
    /\ fresh # None
    /\ display # None
    /\ display # fresh
    /\ Len(animation_manager.current_animation) = 1
    /\ ~animation_manager.receiving_frames
    /\ elapsed >= animation_manager.frame_delay

\* C10 as stated: whenever there is a published list, receiving or not, a due
\* pass renders its current frame and advances the index modulo its length.
C10_DueTickAlwaysPlays ==
    [][(DueTick /\ animation_manager.current_animation # <<>>) =>
          /\ display' = Some(animation_manager.current_animation
                                [animation_manager.current_frame + 1].data)
          /\ animation_manager'.current_frame =
                (animation_manager.current_frame + 1)
                    % Len(animation_manager.current_animation)]_vars

\* C10 amended: when there is a published list and the receiver is not
\* receiving, a due pass renders the list's current frame and advances the
\* index modulo the list's length; while the receiver is receiving, or before
\* any publication, a due pass renders nothing and leaves the manager as it is.
C10_DueTickPlaysUnlessReceiving ==
    [][DueTick =>
          IF /\ animation_manager.current_animation # <<>>
             /\ ~animation_manager.receiving_frames
          THEN /\ display' = Some(animation_manager.current_animation
                                     [animation_manager.current_frame + 1].data)
               /\ animation_manager' =
                     [animation_manager EXCEPT !.current_frame =
                         (animation_manager.current_frame + 1)
                             % Len(animation_manager.current_animation)]
          ELSE /\ display' = display
               /\ animation_manager' = animation_manager]_vars

\* The last frame of a published list of two or more was rendered and the
\* index is back at 0.
C10_Witness ==
    /\ ~animation_manager.receiving_frames
    /\ Len(animation_manager.current_animation) >= 2
    /\ animation_manager.current_frame = 0
    /\ fresh = None
    /\ display = Some(animation_manager.current_animation
                         [Len(animation_manager.current_animation)].data)
    /\ display # Some(animation_manager.current_animation[1].data)

\* C11: while there is a published list, the frame delay the playback clock
\* uses changes only when a request publishes: a request that does not reach
\* finalize_animation (a non-final frame, a malformed payload, no payload)
\* leaves frame_delay as it was.
C11_DelayChangesOnlyAtPublication ==
    [][(animation_manager.current_animation # <<>> /\ ~last'.fin) =>
          animation_manager'.frame_delay = animation_manager.frame_delay]_vars

\* The frame index a due pass renders after one that did what pass says.
NextIndex(n) == IF pass.kind = "rendered" THEN (pass.index + 1) % n ELSE 0

\* A due pass renders frame k.
Renders(k) == DueTick /\ pass'.kind = "rendered" /\ pass'.index = k

\* C12: once a request has published a list of n frames and no further request
\* arrives, the due passes render the frames 0, 1, ..., n-1, 0, 1, ... of that
\* list in this order, none skipped and none repeated, and with the loop
\* scheduled fairly every frame of the list is rendered again and again.
C12_FramesRenderedInCyclicOrder ==
    /\ [][(quiet /\ published.now /\ DueTick) =>
             LET n == Len(animation_manager.current_animation)
             IN /\ pass' = [kind |-> "rendered", index |-> NextIndex(n)]
                /\ display' = Some(animation_manager.current_animation
                                      [NextIndex(n) + 1].data)
                /\ animation_manager'.current_animation =
                       animation_manager.current_animation]_vars
    /\ \A k \in 0..(MaxAcc - 1) :
          \/ [](~(/\ quiet
                  /\ published.now
                  /\ k < Len(animation_manager.current_animation)))
          \/ []<><<Renders(k)>>_vars

\* The last of three frames, not all alike, was rendered after the sender's
\* last request.
C12_Witness ==
    /\ quiet
    /\ published.now
    /\ Len(animation_manager.current_animation) = 3
    /\ animation_manager.current_animation[1] # animation_manager.current_animation[3]
    /\ pass = [kind |-> "rendered", index |-> 2]
    /\ display = Some(animation_manager.current_animation[3].data)

\* C13: as long as no request has reached finalize_animation, no due pass has
\* handed a frame to the renderer and the current-frame index is 0, whatever
\* requests have been handled.
C13_NothingRenderedBeforePublication ==
    ~published.ever =>
        /\ pass.kind # "rendered"
        /\ display = None
        /\ animation_manager.current_frame = 0
        /\ animation_manager.current_animation = <<>>

\* A due pass rendered nothing after two frames had been received and none
\* published.
C13_Witness ==
    /\ ~published.ever
    /\ pass.kind = "skipped"
    /\ Len(animation_manager.next_animation) >= 2

\* C14: a call of display_animation either proceeds with at least one frame or
\* fails with ValueError; when it fails no message has been posted for it and
\* the PicID counter and the pixel buffer are as before the call, with and
\* without a pic_id given.
C14_EmptyAnimationFailsBeforeSending ==
    [][calls' = calls + 1 =>
          /\ outcome' = "ValueError" \/ image'.encoded_frames # <<>>
          /\ outcome' = "ValueError" =>
                /\ pic_id_counter' = pic_id_counter
                /\ buffer' = buffer
                /\ sent' = sent
                /\ in_flight' = in_flight
                /\ pc' = "idle"]_vars

\* A call failed with ValueError after a call that was given a PicID by the
\* controller.
C14_Witness ==
    /\ outcome = "ValueError"
    /\ calls = 2
    /\ Len(used_ids) = 1
    /\ used_ids[1].auto
    /\ pic_id_counter = used_ids[1].id

\* ------------------------------------------------------ the pixel buffer

\* The pixels in which two buffers differ.
Changed(a, b) ==
    IF a.fill = b.fill
    THEN {p \in DOMAIN a.set \cup DOMAIN b.set : GetPixel(a, p) # GetPixel(b, p)}
    ELSE {p \in Grid \cup DOMAIN a.set \cup DOMAIN b.set : GetPixel(a, p) # GetPixel(b, p)}

\* C15: set_pixel(x, y, c) with (x, y) in the image makes a read of (x, y)
\* return c and changes no other pixel; with x or y outside it raises
\* ValueError and the buffer is as before, no pixel written anywhere.
C15_SetPixelWritesOnePixelOrFails ==
    call.op = "set_pixel" =>
        LET p == <<call.args.x, call.args.y>>
        IN IF p \in Grid
           THEN /\ ~call.raised
                /\ GetPixel(buffer, p) = call.args.color
                /\ Changed(before, buffer) \subseteq {p}
           ELSE /\ call.raised
                /\ Changed(before, buffer) = {}
                /\ buffer = before

\* A pixel of the filled picture was overwritten.
C15_Witness ==
    /\ call.op = "set_pixel"
    /\ ~call.raised
    /\ Changed(before, buffer) = {<<call.args.x, call.args.y>>}
    /\ before.set # InitBuffer.set

\* C16: draw_line, draw_circle and draw_rectangle never raise ValueError, also
\* for shapes partly or wholly outside the image: the pixels of the shape
\* outside are skipped and those inside are written.
C16_DrawingNeverRaises ==
    call.op \in {"draw_line", "draw_circle", "draw_rectangle"} =>
        /\ ~call.raised
        /\ call.op = "draw_line" =>
               LET pts == LinePoints(call.args.x0, call.args.y0,
                                     call.args.x1, call.args.y1)
               IN \A p \in Clip({pts[i] : i \in 1..Len(pts)}) :
                      GetPixel(buffer, p) = call.args.color
        /\ call.op # "draw_line" =>
               \A p \in Clip(trace.outline) : GetPixel(buffer, p) = call.args.outline_color

Sign(a) == IF a > 0 THEN 1 ELSE IF a < 0 THEN -1 ELSE 0

\* C17: with both end points in the image, draw_line writes exactly
\* max(|x1-x0|, |y1-y0|) + 1 distinct pixels, the first (x0, y0) and the last
\* (x1, y1); from each to the next the major axis advances by one and the
\* minor axis by zero or one towards the end point; no other pixel changes;
\* draw_line(0, 0, 63, 63) writes the 64 pixels (i, i).
C17_LineIsGaplessFromEndToEnd ==
    (/\ call.op = "draw_line"
     /\ <<call.args.x0, call.args.y0>> \in Grid
     /\ <<call.args.x1, call.args.y1>> \in Grid) =>
        LET x0 == call.args.x0
            y0 == call.args.y0
            x1 == call.args.x1
            y1 == call.args.y1
            pts == trace.points
            n == Max(Abs(x1 - x0), Abs(y1 - y0)) + 1
            xMajor == Abs(x1 - x0) >= Abs(y1 - y0)
            yMajor == Abs(y1 - y0) >= Abs(x1 - x0)
        IN /\ ~call.raised
           /\ Len(pts) = n
           /\ Cardinality({pts[i] : i \in 1..Len(pts)}) = n
           /\ pts[1] = <<x0, y0>>
           /\ pts[Len(pts)] = <<x1, y1>>
           /\ \A i \in 1..(Len(pts) - 1) :
                 LET sx == pts[i + 1][1] - pts[i][1]
                     sy == pts[i + 1][2] - pts[i][2]
                 IN /\ sx \in {0, Sign(x1 - x0)}
                    /\ sy \in {0, Sign(y1 - y0)}
                    /\ xMajor => sx = Sign(x1 - x0)
                    /\ yMajor => sy = Sign(y1 - y0)
           /\ \A i \in 1..Len(pts) : GetPixel(buffer, pts[i]) = call.args.color
           /\ Changed(before, buffer) \subseteq {pts[i] : i \in 1..Len(pts)}
           /\ (x0 = 0 /\ y0 = 0 /\ x1 = 63 /\ y1 = 63) =>
                 pts = [i \in 1..64 |-> <<i - 1, i - 1>>]

\* draw_line(0, 0, 63, 63) on the filled picture wrote the 64 pixels (i, i).
C17_Witness ==
    /\ call.op = "draw_line"
    /\ call.args.x0 = 0 /\ call.args.y0 = 0 /\ call.args.x1 = 63 /\ call.args.y1 = 63
    /\ Len(trace.points) = 64
    /\ \A i \in 0..63 : GetPixel(buffer, <<i, i>>) = call.args.color
    /\ before.set # InitBuffer.set

\* C18: with both corners in the image, draw_rectangle leaves every pixel on
\* the four border rows and columns of the normalized rectangle with the
\* outline colour, every pixel strictly inside with the fill colour (as before
\* when no fill is given) and every pixel outside as before; the buffer is the
\* same for every order of the corners; for (10, 10, 54, 54): (10, 10) and
\* (54, 54) have the outline colour, (11, 11) and (32, 32) the fill colour.
C18_RectangleBorderAndInterior ==
    (/\ call.op = "draw_rectangle"
     /\ <<call.args.x0, call.args.y0>> \in Grid
     /\ <<call.args.x1, call.args.y1>> \in Grid) =>
        LET x0 == call.args.x0
            y0 == call.args.y0
            x1 == call.args.x1
            y1 == call.args.y1
            C == call.args.outline_color
            F == call.args.fill_color
            xs == Min(x0, x1)..Max(x0, x1)
            ys == Min(y0, y1)..Max(y0, y1)
            OnBorder(p) == p[1] \in {Min(x0, x1), Max(x0, x1)}
                           \/ p[2] \in {Min(y0, y1), Max(y0, y1)}
        IN /\ ~call.raised
           /\ \A p \in xs \X ys :
                 GetPixel(buffer, p) =
                     IF OnBorder(p) THEN C
                     ELSE IF F # None THEN The(F)
                     ELSE GetPixel(before, p)
           /\ Changed(before, buffer) \subseteq xs \X ys
           /\ buffer = DrawRectangle(before, x1, y1, x0, y0, C, F).buffer
           /\ buffer = DrawRectangle(before, x0, y1, x1, y0, C, F).buffer
           /\ (x0 = 10 /\ y0 = 10 /\ x1 = 54 /\ y1 = 54 /\ F # None) =>
                 /\ GetPixel(buffer, <<10, 10>>) = C
                 /\ GetPixel(buffer, <<54, 54>>) = C
                 /\ GetPixel(buffer, <<11, 11>>) = The(F)
                 /\ GetPixel(buffer, <<32, 32>>) = The(F)

\* draw_rectangle(54, 10, 10, 54) with a fill over the filled picture.
C18_Witness ==
    /\ call.op = "draw_rectangle"
    /\ call.args.x0 = 54 /\ call.args.y0 = 10 /\ call.args.x1 = 10 /\ call.args.y1 = 54
    /\ call.args.fill_color = Some(Blue)
    /\ GetPixel(buffer, <<10, 10>>) = Red
    /\ GetPixel(buffer, <<11, 11>>) = Blue
    /\ GetPixel(buffer, <<9, 9>>) = White
    /\ GetPixel(before, <<11, 11>>) = White

C20_ClearFillsEveryPixel ==
    call.op = "clear_buffer" =>
        /\ ~call.raised
        /\ \A p \in Grid : GetPixel(buffer, p) = call.args.color
        /\ DOMAIN buffer.set \subseteq Grid
        /\ ClearBuffer(buffer, call.args.color) = buffer
        /\ Changed(buffer, ClearBuffer(buffer, call.args.color)) = {}

\* The filled picture was cleared to a colour other than its own.
C20_Witness ==
    /\ call.op = "clear_buffer"
    /\ before.set # InitBuffer.set
    /\ call.args.color = Red
    /\ \A p \in Grid : GetPixel(before, p) # Red
    /\ \A p \in Grid : GetPixel(buffer, p) = Red

\* C21 (as amended): controller and simulator joined, every message delivered
\* once and in send order.  After display_animation has returned for an
\* animation of n >= 1 frames of 64*64*3 bytes, the published animation is the
\* first min(n, 60) frames of the source, byte for byte and in order, the
\* receiver is idle and its delay is the animation's frame_delay; the index is 0
\* until the display loop's first due pass after the publication, and one past
\* the index last rendered (modulo the length) afterwards.
C21_ReturnedAnimationIsPublished ==
    (outcome = "returned" /\ image.pic_width = buffer_width) =>
      LET SourceFrames ==
              Take(image.encoded_frames, Min(Len(image.encoded_frames), MaxPicNum))
      IN
        /\ animation_manager.current_animation =
               [k \in 1..Len(SourceFrames) |-> AnimationFrame(SourceFrames[k])]
        /\ ~animation_manager.receiving_frames
        /\ animation_manager.frame_delay = image.frame_delay
        /\ animation_manager.current_frame =
               IF pass.kind = "rendered"
               THEN (pass.index + 1) % Len(SourceFrames)
               ELSE 0

\* A 61-frame animation sent as the second call has returned, 60 frames are
\* published and the display loop has rendered since.
C21_Witness ==
    /\ outcome = "returned"
    /\ calls = 2
    /\ Len(image.encoded_frames) = MaxPicNum + 1
    /\ Len(animation_manager.current_animation) = MaxPicNum
    /\ pass.kind = "rendered"

\* C21 as stated: the same, with the index 0 whenever display_animation has
\* returned.
C21_IndexZeroAfterReturn ==
    (outcome = "returned" /\ image.pic_width = buffer_width) =>
      LET SourceFrames ==
              Take(image.encoded_frames, Min(Len(image.encoded_frames), MaxPicNum))
      IN
        /\ animation_manager.current_animation =
               [k \in 1..Len(SourceFrames) |-> AnimationFrame(SourceFrames[k])]
        /\ ~animation_manager.receiving_frames
        /\ animation_manager.frame_delay = image.frame_delay
        /\ animation_manager.current_frame = 0

\* C22: once the device has answered a message with an error reply,
\* display_animation has failed: it has surfaced the failure to its caller and
\* stands in its loop no longer, so that no message with a greater offset
\* follows.
C22_ErrorReplyEndsTheCall ==
    exchange = "error_reply" =>
        /\ pc = "idle"
        /\ outcome \notin {"pending", "returned"}

\* C23: a well-formed message with a non-zero offset that arrives while the
\* receiver is idle, also one whose offset is its total - 1, starts no
\* accumulation and publishes nothing: the pending list, the published list,
\* the current-frame index and the receiving flag stay as they were.
C23_StrayMessageWhileIdleChangesNothing ==
    [][(~animation_manager.receiving_frames /\ last'.kind = "stray") =>
          /\ animation_manager'.next_animation = animation_manager.next_animation
          /\ animation_manager'.current_animation = animation_manager.current_animation
          /\ animation_manager'.current_frame = animation_manager.current_frame
          /\ animation_manager'.receiving_frames = animation_manager.receiving_frames]_vars

\* C24 (as amended): with both end points in the image, draw_line from
\* (x1, y1) to (x0, y0) calls set_pixel with the mirror images, through the
\* middle of the segment, of the pixels of draw_line from (x0, y0) to (x1, y1),
\* in the same order: as many pixels, both end points among them, on the same
\* buffer the mirrored set coloured; for a horizontal, a vertical and a
\* diagonal line the two calls colour the same set of pixels.
C24_ReversedLineIsMirrored ==
    (/\ call.op = "draw_line"
     /\ <<call.args.x0, call.args.y0>> \in Grid
     /\ <<call.args.x1, call.args.y1>> \in Grid) =>
        LET x0 == call.args.x0
            y0 == call.args.y0
            x1 == call.args.x1
            y1 == call.args.y1
            pts == trace.points
            back == DrawLine(before, x1, y1, x0, y0, call.args.color)
            Mirror(p) == <<x0 + x1 - p[1], y0 + y1 - p[2]>>
            S == {pts[i] : i \in 1..Len(pts)}
            T == {back.points[i] : i \in 1..Len(back.points)}
        IN /\ ~back.raised
           /\ Len(back.points) = Len(pts)
           /\ \A i \in 1..Len(pts) : back.points[i] = Mirror(pts[i])
           /\ {<<x0, y0>>, <<x1, y1>>} \subseteq S \cap T
           /\ back.buffer = PutPixels(before, {Mirror(p) : p \in S}, call.args.color)
           /\ (x0 = x1 \/ y0 = y1 \/ Abs(x1 - x0) = Abs(y1 - y0)) =>
                 (T = S /\ back.buffer = buffer)

\* draw_line(0, 0, 8, 5) has run: drawn from (8, 5) to (0, 0) the line goes
\* through other pixels.
C24_Witness ==
    /\ call.op = "draw_line"
    /\ ~call.raised
    /\ call.args.x0 = 0 /\ call.args.y0 = 0 /\ call.args.x1 = 8 /\ call.args.y1 = 5
    /\ DrawLine(before, 8, 5, 0, 0, call.args.color).buffer # buffer

\* C24 as stated: with both end points in the image, draw_line from (x1, y1)
\* to (x0, y0) colours on the same buffer exactly the pixels that draw_line
\* from (x0, y0) to (x1, y1) colours.
C24_LineSymmetricInEndPoints ==
    (/\ call.op = "draw_line"
     /\ <<call.args.x0, call.args.y0>> \in Grid
     /\ <<call.args.x1, call.args.y1>> \in Grid) =>
        LET back == DrawLine(before, call.args.x1, call.args.y1,
                             call.args.x0, call.args.y0, call.args.color)
        IN /\ {back.points[i] : i \in 1..Len(back.points)}
                  = {trace.points[i] : i \in 1..Len(trace.points)}
           /\ back.buffer = buffer

\* C25: flush_buffer sends one message and no more, with PicNum 1 and
\* PicOffset 0; the payload in flight decodes to the 64*64*3 bytes of the
\* buffer as it was at the call, row by row and R, G, B for each pixel; the
\* frame the simulator publishes for it is the frame sent; an identifier
\* flush_buffer assigns itself is one greater than the last one assigned
\* automatically; the call leaves the buffer as it was; and drawing changes
\* neither the messages sent nor what the simulator holds.
C25_FlushSendsOneSnapshot ==
    /\ [](call.op = "flush_buffer" =>
            /\ Len(sent) <= 1
            /\ (outcome = "returned" => Len(sent) = 1)
            /\ \A k \in 1..Len(sent) :
                   /\ sent[k].PicNum = 1
                   /\ sent[k].PicOffset = 0
                   /\ B64Valid(sent[k].PicData)
            /\ \A payload \in in_flight :
                   LET frame == B64Decode(payload.PicData)
                   IN /\ payload = sent[1]
                      /\ frame.len = buffer_width * buffer_width * Channels
                      /\ Len(frame.id) = frame.len
                      /\ (exchange = "pending") =>
                            \A p \in Grid :
                               LET at == Channels * (p[2] * buffer_width + p[1])
                               IN <<frame.id[at + 1], frame.id[at + 2], frame.id[at + 3]>>
                                      = GetPixel(before, p)
            /\ (exchange \in {"handled", "ok"}) =>
                   /\ ~animation_manager.receiving_frames
                   /\ animation_manager.current_animation
                          = <<AnimationFrame(B64Decode(sent[1].PicData))>>
            /\ \A j \in 1..Len(used_ids) :
                   LET earlier == {i \in 1..(j - 1) : used_ids[i].auto}
                   IN (used_ids[j].auto /\ earlier # {}) =>
                          LET last_auto == CHOOSE i \in earlier : \A k \in earlier : k <= i
                          IN used_ids[j].id = used_ids[last_auto].id + 1)
    /\ [][
           /\ (calls' # calls) =>
                (/\ buffer' = buffer
                 /\ before' = buffer
                 /\ (call'.args.pic_id = None => pic_id' = pic_id_counter + 1))
           /\ (buffer' # buffer) =>
                (/\ sent' = sent
                 /\ in_flight' = in_flight
                 /\ animation_manager' = animation_manager)]_vars

\* A buffer with a red pixel was flushed without a pic_id after a flush with
\* one, the frame is published, and the buffer has been cleared since.
C25_Witness ==
    /\ call.op = "flush_buffer"
    /\ outcome = "returned"
    /\ Len(used_ids) = 3
    /\ used_ids[1].auto /\ ~used_ids[2].auto /\ used_ids[3].auto
    /\ GetPixel(before, <<5, 7>>) = Red
    /\ before.fill = Black
    /\ buffer = ClearBuffer(before, Black)
    /\ Len(animation_manager.current_animation) = 1
    /\ animation_manager.current_animation[1].data.id[Channels * (7 * buffer_width + 5) + 1] = 255


====
